---------------------------- MODULE Spec2Model ----------------------------
(***************************************************************************)
(* The capture page of Huddle (frontend/src/pages/CaptureAudio.js): the    *)
(* capture session controller, the cycling transcription recorder, the     *)
(* transcription uploader and the platform objects they drive (media       *)
(* tracks, audio context, MediaRecorders, interval timers).                *)
(*                                                                         *)
(* One action is one task of the browser's event loop: an event handler,   *)
(* or the part of an async function between two awaits that suspend on     *)
(* I/O, run together with the microtasks it queues.                        *)
(*                                                                         *)
(* Platform semantics used (W3C Media Capture / MediaStream Recording):    *)
(*   - track.stop() fires no 'ended' event; a track ended by the platform  *)
(*     queues a task that aborts when the track was stopped meanwhile;     *)
(*   - MediaRecorder.start() throws when the stream is inactive or the     *)
(*     codec is not supported; MediaRecorder.stop() makes the state        *)
(*     'inactive' at once and fires 'stop' in a later task;                *)
(*   - a recorder whose stream becomes inactive is stopped by the platform;*)
(*   - clearInterval cancels every later firing of the interval;           *)
(*   - a state setter of an unmounted React component does nothing.        *)
(***************************************************************************)
EXTENDS Naturals, Sequences, FiniteSets, Bags

\* ------------------------------------------------------------------ bounds
MaxAudioTracks == 2     \* audio tracks the capture dialog may return
MaxInflight    == 1     \* finished segments on their way to the transcript
MaxEntries     == 2     \* entries of the live transcript
MaxTime        == 1     \* seconds the elapsed-time ticker counts up to
MaxOrphans     == 1     \* unreferenced live timers / recorders counted
MaxUploads     == 2     \* segments under way at once in SpecUploads

\* --------------------------------------------------------------- constants
\* Meeting ids are opaque to the page: it stores, compares with null and
\* sends them.  The id of the session started last is New; when the backend
\* hands out the next one, every copy of an earlier id becomes Old.
Null == "null"          \* useState(null) / useRef(null) of the meeting id
New  == "new"
Old  == "old"

Age(id) == IF id = New THEN Old ELSE id

Titles  == {"", " ", "Standup"}
Sources == {"system", "tab", "mic+system"}

\* data.text of an OK response of /recording/transcribe-audio: the field is
\* missing, or it holds one of these strings
Undefined == "<undefined>"
ResponseTexts == {Undefined, "", " ", " hello "}

\* String.prototype.trim on the strings of the model
Trim(t) ==
  CASE t = " " -> ""
    [] t = " hello " -> "hello"
    [] OTHER -> t

\* the condition as it would be without the trim: `data.text`
HasTextUntrimmed(t) == t # Undefined /\ t # ""

\* `data.text && data.text.trim()` as a condition
HasText(t) == t # Undefined /\ t # "" /\ Trim(t) # ""

VARIABLES
  st,            \* React state of the component (useState)
  rt,            \* refs (useRef) and the platform objects they point to
  mounted,       \* the component is mounted
  navPending,    \* onMeetingCreated asked the host to leave the page
  startPc,       \* where startCapture is suspended
  stopPc,        \* where stopCapture is suspended
  captureSource, \* captureSource in the closure of the running startCapture
                 \* (its initial value, 'system', while none runs)
  closMeetingId, \* meetingId in the closure of the render startCapture ran in
  closTranscript,\* liveTranscript in the closure of that render (empty
                 \* once cleanup() stopped the tracks whose onended holds it)
  stopMeetingId, \* meetingId in the closure of the running stopCapture
                 \* (Null while none is suspended)
  hist           \* history of the current attempt / session (observers only)

vars == <<st, rt, mounted, navPending, startPc, stopPc, captureSource,
          closMeetingId, closTranscript, stopMeetingId, hist>>

\* ------------------------------------------------------------ track helpers
IsLive(t) == t \in {"live", "ending"}

\* MediaStreamTrack.stop(): the readyState of a live track becomes 'ended'
\* (and the queued task of a track that was ending finds it ended and aborts)
StopTrack(t) == IF IsLive(t) THEN "ended" ELSE t

\* The audio tracks of a stream are alike (same stream, same onended
\* handler): their order carries no information and the sequence is kept
\* sorted, live tracks first.  A track that has ended has no event pending
\* and can never be live again: it is dropped from the sequence.
CountOf(ts, v) == Cardinality({i \in DOMAIN ts : ts[i] = v})

SortTracks(ts) ==
  [i \in 1..(CountOf(ts, "live") + CountOf(ts, "ending")) |->
     IF i <= CountOf(ts, "live") THEN "live" ELSE "ending"]

StopTracks(ts) == SortTracks([i \in DOMAIN ts |-> StopTrack(ts[i])])

AnyLive(ts) == \E i \in DOMAIN ts : IsLive(ts[i])

\* MediaStream.active of the stream activeStreamRef points to
StreamActive(r) ==
  CASE r.activeStreamRef = "sys"  -> AnyLive(r.sysAudio)
    [] r.activeStreamRef = "comb" -> IsLive(r.comb)
    [] OTHER -> FALSE

\* a finished recorder queues its 'stop' event: recorder.onstop will run
QueueOnStop(r, sess) ==
  [r EXCEPT !.segs = @ (+) SetToBag({[stage |-> "onstop", sess |-> sess]})]

\* the steps that may end a running cycle recorder are taken while the
\* segments under way leave room for its segment
CanQueue ==
  rt.transcriptionRecorder = "recording" => BagCardinality(rt.segs) < MaxInflight

Inc(n) == IF n < MaxOrphans THEN n + 1 ELSE n

\* The page reads a recorder ref only as `ref.current && ref.current.state
\* !== 'inactive'` and never starts a stopped recorder again: a null ref and
\* a ref to an inactive recorder are alike to it.  One value ("null" for the
\* cycle recorder, "none" for the full-session recorder) stands for both,
\* and trSess, the session a cycle recorder records for, is Null with it.

\* the platform stops every recorder of a stream that became inactive
InactivateRecorders(r) ==
  IF StreamActive(r) THEN r
  ELSE LET r1 == IF r.transcriptionRecorder = "recording"
                   THEN QueueOnStop([r EXCEPT !.transcriptionRecorder = "null", !.trSess = Null], r.trSess)
                   ELSE r
       IN [r1 EXCEPT !.mediaRecorder = IF @ \in {"recording", "paused"} THEN "none" ELSE @,
                     !.orphanRecorders = 0]

\* Streams whose tracks have all ended can never be live again and no event
\* of theirs is pending: their tracks are forgotten, and a reference still
\* held to such a stream (activeStreamRef is never cleared) is "stale".
Forget(r) ==
  IF AnyLive(r.sysAudio) \/ IsLive(r.mic) \/ IsLive(r.comb) \/ IsLive(r.video)
       \/ r.systemStreamRef \/ r.micStreamRef \/ r.combinedStreamRef
    THEN r
    ELSE [r EXCEPT !.sysAudio = <<>>, !.mic = "none", !.comb = "none",
                   !.video = "none", !.onended = "none",
                   !.activeStreamRef = IF @ = "none" THEN "none" ELSE "stale"]

\* cleanup as it would be without the block that stops the microphone stream
cleanupKeepsMic(r) ==
  LET r1 == [r EXCEPT !.animationFrame = FALSE,
                      !.transcriptionTimerRef = FALSE]
      r2 == IF r1.transcriptionRecorder = "recording"
              THEN QueueOnStop([r1 EXCEPT !.transcriptionRecorder = "null", !.trSess = Null], r1.trSess)
              ELSE r1
      r3 == [r2 EXCEPT !.mediaRecorder = IF @ \in {"recording", "paused"} THEN "none" ELSE @]
      r4 == IF r3.systemStreamRef
              THEN [r3 EXCEPT !.sysAudio = StopTracks(@), !.systemStreamRef = FALSE]
              ELSE r3
      r6 == IF r4.combinedStreamRef
              THEN [r4 EXCEPT !.comb = StopTrack(@), !.combinedStreamRef = FALSE]
              ELSE r4
      r7 == IF r6.audioContextRef /\ r6.audioContext # "closed"
              THEN [r6 EXCEPT !.audioContext = "closed", !.audioContextRef = FALSE]
              ELSE r6
  IN Forget(InactivateRecorders(r7))

\* ------------------------------------------------------------------ cleanup
cleanup(r) ==
  LET r1 == [r EXCEPT !.animationFrame = FALSE,
                      !.transcriptionTimerRef = FALSE]
      r2 == IF r1.transcriptionRecorder = "recording"
              THEN QueueOnStop([r1 EXCEPT !.transcriptionRecorder = "null", !.trSess = Null], r1.trSess)
              ELSE r1
      r3 == [r2 EXCEPT !.mediaRecorder = IF @ \in {"recording", "paused"} THEN "none" ELSE @]
      r4 == IF r3.systemStreamRef
              THEN [r3 EXCEPT !.sysAudio = StopTracks(@), !.systemStreamRef = FALSE]
              ELSE r3
      r5 == IF r4.micStreamRef
              THEN [r4 EXCEPT !.mic = StopTrack(@), !.micStreamRef = FALSE]
              ELSE r4
      r6 == IF r5.combinedStreamRef
              THEN [r5 EXCEPT !.comb = StopTrack(@), !.combinedStreamRef = FALSE]
              ELSE r5
      r7 == IF r6.audioContextRef /\ r6.audioContext # "closed"
              THEN [r6 EXCEPT !.audioContext = "closed", !.audioContextRef = FALSE]
              ELSE r6
  IN Forget(InactivateRecorders(r7))

\* ------------------------------------------- cycling transcription recorder
\* new MediaRecorder(stream, {mimeType}) followed by recorder.start(1000)
RecorderStarts(r) == r.encoder /\ StreamActive(r)

startTranscriptionRecorder(r) ==
  IF r.activeStreamRef = "none" THEN r
  ELSE IF ~RecorderStarts(r) THEN r
  ELSE [r EXCEPT !.transcriptionRecorder = "recording",
                 !.trSess = r.meetingIdRef,
                 !.orphanRecorders =
                    IF r.transcriptionRecorder = "recording" THEN Inc(@) ELSE @]

StopRecorderRef(r) ==
  IF r.transcriptionRecorder = "recording"
    THEN QueueOnStop([r EXCEPT !.transcriptionRecorder = "null", !.trSess = Null], r.trSess)
    ELSE r

\* cycleTranscriptionRecorder as it would be without stopping the current
\* recorder first
cycleWithoutStop(r) ==
  IF r.isCapturingRef THEN startTranscriptionRecorder(r) ELSE r

cycleTranscriptionRecorder(r) ==
  LET r1 == StopRecorderRef(r)
  IN IF r1.isCapturingRef THEN startTranscriptionRecorder(r1) ELSE r1

startServerTranscription(r) ==
  LET r1 == startTranscriptionRecorder(r)
  IN [r1 EXCEPT !.orphanTimers = IF r1.transcriptionTimerRef THEN Inc(@) ELSE @,
                !.transcriptionTimerRef = TRUE]

stopServerTranscription(r) ==
  LET r1 == StopRecorderRef([r EXCEPT !.transcriptionTimerRef = FALSE])
  IN [r1 EXCEPT !.transcriptionRecorder = "null"]

\* ------------------------------------------------------------ level monitor
\* updateLevel: samples and reschedules itself only with an analyser and
\* while isCapturingRef is set
updateLevel(r) ==
  IF ~r.analyserRef \/ ~r.isCapturingRef THEN r
  ELSE [r EXCEPT !.animationFrame = TRUE]

\* vizOk: new AudioContext() succeeds (only needed when no context is held)
setupAudioVisualization(r, vizOk) ==
  IF ~r.audioContextRef /\ ~vizOk THEN r
  ELSE LET r1 == IF r.audioContextRef THEN r
                 ELSE [r EXCEPT !.orphanContext = @ \/ r.audioContext = "running",
                                !.audioContext = "running",
                                !.audioContextRef = TRUE]
       IN updateLevel([r1 EXCEPT !.analyserRef = TRUE])

\* combineStreams (after new AudioContext({sampleRate}) succeeded)
combineStreams(r) ==
  [r EXCEPT !.orphanContext = @ \/ r.audioContext = "running",
            !.audioContext = "running",
            !.audioContextRef = TRUE,
            !.comb = "live"]

\* ---------------------------------------------------------- React state
\* a state setter of an unmounted component changes nothing (st then is what
\* Unmount left of the state: nothing reads it any more)
SetState(new) == IF mounted THEN new ELSE st

\* the reset of stopCapture as it would be if it also emptied the transcript
ResetStateAndTranscript(s) ==
  [s EXCEPT !.isCapturing = FALSE, !.isPaused = FALSE, !.recordingTime = 0,
            !.meetingId = Null, !.status = "idle", !.liveTranscript = <<>>]

ResetState(s) ==
  [s EXCEPT !.isCapturing = FALSE, !.isPaused = FALSE, !.recordingTime = 0,
            !.meetingId = Null, !.status = "idle"]

ResetRefs(r) == [r EXCEPT !.isCapturingRef = FALSE, !.meetingIdRef = Null]

NoHist ==
  [display |-> "none", startReq |-> FALSE, startFail |-> "none",
   acquired |-> FALSE,
   stopped |-> FALSE, stopOverlap |-> FALSE, trackReentry |-> FALSE,
   stopBy |-> "none", stopCalls |-> <<>>, persisted |-> <<>>,
   stopResult |-> "none",
   endedAborted |-> FALSE, uploadFailed |-> FALSE, justAppended |-> FALSE]

\* uploadFailed marks only the state that follows a failed upload, and
\* justAppended only the state that follows the append of an entry: every
\* other step is taken at a later reading of the clock
Past(h) == [h EXCEPT !.uploadFailed = FALSE, !.justAppended = FALSE]

Init ==
  /\ st = [status |-> "idle", isCapturing |-> FALSE, isPaused |-> FALSE,
           recordingTime |-> 0, meetingId |-> Null, liveTranscript |-> <<>>,
           error |-> "", meetingTitle |-> ""]
  /\ \E enc \in BOOLEAN :
       rt = [sysAudio |-> <<>>, video |-> "none", mic |-> "none", comb |-> "none",
             systemStreamRef |-> FALSE, micStreamRef |-> FALSE,
             combinedStreamRef |-> FALSE,
             audioContext |-> "none", audioContextRef |-> FALSE,
             orphanContext |-> FALSE, analyserRef |-> FALSE,
             mediaRecorder |-> "none",
             transcriptionRecorder |-> "null", trSess |-> Null,
             orphanRecorders |-> 0,
             transcriptionTimerRef |-> FALSE, orphanTimers |-> 0,
             animationFrame |-> FALSE,
             isCapturingRef |-> FALSE, meetingIdRef |-> Null,
             activeStreamRef |-> "none", onended |-> "none",
             encoder |-> enc, segs |-> EmptyBag]
  /\ mounted = TRUE
  /\ navPending = FALSE
  /\ startPc = "none"
  /\ stopPc = "none"
  /\ captureSource = "system"
  /\ closMeetingId = Null
  /\ closTranscript = <<>>
  /\ stopMeetingId = Null
  /\ hist = NoHist

\* -------------------------------------------------------------- the title
\* the title input is rendered while the session is not capturing; the title
\* is read by the Start button alone, so edits are modelled while no start
\* is under way
SetTitle(t) ==
  /\ mounted /\ ~navPending
  /\ ~st.isCapturing
  /\ st.status # "requesting"
  /\ t # st.meetingTitle
  /\ st' = [st EXCEPT !.meetingTitle = t]
  /\ UNCHANGED <<rt, mounted, navPending, startPc, stopPc, captureSource,
                 closMeetingId, closTranscript, stopMeetingId>>
  /\ hist' = Past(hist)

\* ----------------------------------------------------------- startCapture
\* the Start button as it would be if an empty title did not disable it
StartEnabledAnyTitle ==
  /\ mounted /\ ~navPending
  /\ ~st.isCapturing
  /\ st.status # "requesting"

\* the Start button: rendered while !isCapturing, disabled with an empty
\* title or while requesting
StartEnabled ==
  /\ mounted /\ ~navPending
  /\ ~st.isCapturing
  /\ Trim(st.meetingTitle) # ""
  /\ st.status # "requesting"

\* startCapture up to the await of getDisplayMedia; the stopCapture it closes
\* over reads liveTranscript only under if (meetingId), so the closure's copy
\* of the transcript is kept only with a non-null closure id
StartClick(src) ==
  /\ StartEnabled
  /\ st' = [st EXCEPT !.error = "", !.status = "requesting"]
  /\ startPc' = "display"
  /\ captureSource' = src
  /\ closMeetingId' = st.meetingId
  /\ closTranscript' = IF st.meetingId = Null THEN <<>> ELSE st.liveTranscript
  /\ hist' = NoHist
  /\ UNCHANGED <<rt, mounted, navPending, stopPc, stopMeetingId>>

\* the catch block of startCapture as it would be without its cleanup() call
StartCatchWithoutCleanup(r, msg, step) ==
  /\ CanQueue
  /\ st' = SetState([st EXCEPT !.error = msg, !.status = "idle"])
  /\ rt' = r
  /\ startPc' = "none"
  /\ captureSource' = "system"
  /\ hist' = [Past(hist) EXCEPT !.startFail = step,
                          !.display = IF step = "display" THEN msg ELSE @]
  /\ closTranscript' = <<>>
  /\ UNCHANGED <<mounted, navPending, stopPc, closMeetingId, stopMeetingId>>

\* the catch block of startCapture
StartCatch(r, msg, step) ==
  /\ CanQueue
  /\ st' = SetState([st EXCEPT !.error = msg, !.status = "idle"])
  /\ rt' = cleanup(r)
  /\ startPc' = "none"
  /\ captureSource' = "system"
  /\ hist' = [Past(hist) EXCEPT !.startFail = step,
                          !.display = IF step = "display" THEN msg ELSE @]
  /\ closTranscript' = <<>>
  /\ UNCHANGED <<mounted, navPending, stopPc, closMeetingId,
                 stopMeetingId>>

\* startCapture from the stream check to the await of /recording/start:
\* the 'ended' observers, the level monitor, the request
AfterAcquire(r, active, vizOk) ==
  LET n == IF active = "sys" THEN Len(r.sysAudio) ELSE 1
  IN IF n = 0
       THEN StartCatch(r, "nostream", "stream")
       ELSE /\ rt' = setupAudioVisualization([r EXCEPT !.onended = active], vizOk)
            /\ startPc' = "backend"
            /\ hist' = [Past(hist) EXCEPT !.startReq = TRUE, !.acquired = TRUE]
            /\ UNCHANGED <<st, mounted, navPending, stopPc, captureSource,
                           closMeetingId, closTranscript, stopMeetingId>>

\* a stream replaces the one the track fields described: a reference kept to
\* the old one is to a stream without live tracks
NewStream(r) ==
  [r EXCEPT !.activeStreamRef = IF @ = "none" THEN "none" ELSE "stale",
            !.mic = "none", !.comb = "none"]

\* getDisplayMedia returns or throws; captureSystemAudio checks the tracks
DisplayThrows(msg) ==
  /\ startPc = "display"
  /\ msg \in {"cancelled", "other"}
  /\ StartCatch(rt, msg, "display")

\* the no-audio branch as it would be without stopping the stream's tracks
DisplayNoAudioKeepsTracks ==
  /\ startPc = "display"
  /\ StartCatch([NewStream(rt) EXCEPT !.sysAudio = <<>>, !.video = "live"],
                "noaudio", "display")

\* a stream without audio tracks: all its tracks are stopped, then the throw
DisplayNoAudio ==
  /\ startPc = "display"
  /\ StartCatch([NewStream(rt) EXCEPT !.sysAudio = <<>>, !.video = "ended"],
                "noaudio", "display")

DisplayAudio(n, vizOk) ==
  /\ startPc = "display"
  /\ n \in 1..MaxAudioTracks
  /\ LET r == [NewStream(rt) EXCEPT !.sysAudio = [i \in 1..n |-> "live"],
                                    !.video = "ended",
                                    !.systemStreamRef = TRUE]
     IN IF captureSource = "mic+system"
          THEN /\ rt' = r
               /\ startPc' = "mic"
               /\ hist' = [Past(hist) EXCEPT !.display = "audio", !.acquired = TRUE]
               /\ UNCHANGED <<st, mounted, navPending, stopPc, captureSource,
                              closMeetingId, closTranscript, stopMeetingId>>
          ELSE AfterAcquire(r, "sys", vizOk)

\* getUserMedia returns or throws; combineStreams
MicResult(micOk, mixOk) ==
  /\ startPc = "mic"
  /\ IF ~micOk
       THEN StartCatch(rt, "other", "mic")
       ELSE LET r == [rt EXCEPT !.mic = "live", !.micStreamRef = TRUE]
            IN IF ~mixOk
                 THEN StartCatch(r, "other", "mixing")
                 ELSE AfterAcquire([combineStreams(r) EXCEPT !.combinedStreamRef = TRUE],
                                   "comb", TRUE)

\* /recording/start returns or throws
BackendStartResult(outcome) ==
  /\ startPc = "backend"
  /\ IF outcome = "ok"
       THEN /\ startPc' = "json"
            /\ UNCHANGED <<st, rt, mounted, navPending, stopPc, captureSource,
                           closMeetingId, closTranscript, stopMeetingId>>
            /\ hist' = Past(hist)
       ELSE StartCatch(rt, IF outcome = "notok" THEN "startfailed" ELSE "other", "backend")

\* the backend hands out a fresh id: the copies of the earlier ones are Old
AgeSeg(g) == [g EXCEPT !.sess = Age(@)]

AgeEntries(tr) == [i \in DOMAIN tr |-> [tr[i] EXCEPT !.sess = Age(@)]]

AgeRefs(r) ==
  [r EXCEPT !.meetingIdRef = Age(@), !.trSess = Age(@),
            !.segs = BagOfAll(AgeSeg, @)]

\* the full-session recorder of startCapture (its try/catch)
StartFullRecorder(r) ==
  IF RecorderStarts(r) THEN [r EXCEPT !.mediaRecorder = "recording"] ELSE r

\* response.json() returns or throws; the rest of startCapture.
\* fullOk: creating and starting the full-session recorder does not throw
\* for a reason of its own
JsonResult(ok, fullOk) ==
  /\ startPc = "json"
  /\ ~ok => fullOk
  /\ IF ~ok
       THEN StartCatch(rt, "other", "json")
       ELSE LET active == IF captureSource = "mic+system" THEN "comb" ELSE "sys"
                r1 == [AgeRefs(rt) EXCEPT !.meetingIdRef = New,
                                          !.activeStreamRef = active]
                r2 == IF fullOk THEN StartFullRecorder(r1) ELSE r1
                r3 == startServerTranscription([r2 EXCEPT !.isCapturingRef = TRUE])
            IN /\ rt' = r3
               /\ st' = SetState([st EXCEPT !.meetingId = New,
                                           !.isCapturing = TRUE,
                                           !.isPaused = FALSE,
                                           !.recordingTime = 0,
                                           !.liveTranscript = <<>>,
                                           !.status = "capturing"])
               /\ closMeetingId' = Age(closMeetingId)
               /\ closTranscript' = AgeEntries(closTranscript)
               /\ stopMeetingId' = Age(stopMeetingId)
               /\ hist' = [Past(hist) EXCEPT !.stopCalls = [i \in DOMAIN @ |-> [@[i] EXCEPT !.mid = Age(@)]],
                                       !.persisted = AgeEntries(@)]
               /\ startPc' = "none"
               /\ captureSource' = "system"
               /\ UNCHANGED <<mounted, navPending, stopPc>>

\* ------------------------------------------------------------ stopCapture
\* stopCapture from its entry to its first backend await (or, without a
\* meeting id in its closure, to its end)
StopEnter(r, by, mid, transcript) ==
  LET r1 == stopServerTranscription(r)
      r2 == [r1 EXCEPT !.mediaRecorder =
                          IF @ \in {"recording", "paused"} THEN "none" ELSE @]
      r3 == cleanup(r2)
      h  == [Past(hist) EXCEPT !.stopped = TRUE,
                         !.stopOverlap = @ \/ stopPc # "none",
                         !.trackReentry = @ \/ (by = "track" /\ hist.stopped),
                         !.stopBy = by,
                         !.endedAborted = @ \/ \E i \in DOMAIN r.sysAudio : r.sysAudio[i] = "ending"]
  IN IF mid # Null
       THEN /\ st' = SetState([st EXCEPT !.status = "stopping"])
            /\ rt' = r3
            /\ stopPc' = "persist"
            /\ stopMeetingId' = mid
            /\ hist' = [h EXCEPT !.stopCalls = <<[call |-> "persist", mid |-> mid]>>,
                                 !.persisted = transcript,
                                 !.stopResult = "running"]
            /\ closTranscript' = <<>>
            /\ UNCHANGED <<mounted, navPending, startPc, captureSource,
                           closMeetingId>>
       ELSE /\ st' = SetState(ResetState(st))
            /\ rt' = ResetRefs(r3)
            /\ stopPc' = "none"
            /\ hist' = [h EXCEPT !.stopCalls = <<>>, !.stopResult = "done"]
            /\ closTranscript' = <<>>
            /\ UNCHANGED <<mounted, navPending, startPc, captureSource,
                           closMeetingId, stopMeetingId>>

\* the Stop button as it would be without its disabled attribute
StopClickNotDisabled ==
  /\ CanQueue
  /\ mounted /\ ~navPending
  /\ st.isCapturing
  /\ StopEnter(rt, "click", st.meetingId, st.liveTranscript)

\* the Stop button: rendered while isCapturing, disabled while stopping
StopClick ==
  /\ CanQueue
  /\ mounted /\ ~navPending
  /\ st.isCapturing
  /\ st.status # "stopping"
  /\ StopEnter(rt, "click", st.meetingId, st.liveTranscript)

NextCall(pc) == IF pc = "persist" THEN "update" ELSE "finalize"

\* one of the three awaited backend calls of stopCapture returns or throws
StopCallReturns(outcome) ==
  /\ stopPc \in {"persist", "update", "finalize"}
  /\ outcome \in {"ok", "http500", "throw"}
  /\ LET h == [Past(hist) EXCEPT !.endedAborted = FALSE]
     IN IF outcome = "throw"
          THEN /\ st' = SetState([st EXCEPT !.error = "savefailed", !.status = "idle"])
               /\ stopPc' = "none"
               /\ stopMeetingId' = Null
               /\ hist' = [h EXCEPT !.stopResult = "failed"]
               /\ UNCHANGED <<rt, mounted, navPending, startPc, captureSource,
                              closMeetingId, closTranscript>>
          ELSE IF stopPc # "finalize"
          THEN /\ stopPc' = NextCall(stopPc)
               /\ hist' = [h EXCEPT !.stopCalls =
                              Append(@, [call |-> NextCall(stopPc), mid |-> stopMeetingId])]
               /\ UNCHANGED <<st, rt, mounted, navPending, startPc, captureSource,
                              closMeetingId, closTranscript, stopMeetingId>>
          ELSE /\ navPending' = mounted
               /\ st' = SetState(ResetState(st))
               /\ rt' = ResetRefs(rt)
               /\ stopPc' = "none"
               /\ stopMeetingId' = Null
               /\ hist' = [h EXCEPT !.stopResult = "done"]
               /\ UNCHANGED <<mounted, startPc, captureSource, closMeetingId, closTranscript>>

\* ------------------------------------------------------------- togglePause
\* the Pause/Resume button: rendered while isCapturing, never disabled
TogglePause ==
  /\ CanQueue
  /\ mounted /\ ~navPending
  /\ st.isCapturing
  /\ IF st.isPaused
       THEN /\ rt' = startServerTranscription(
                       [rt EXCEPT !.mediaRecorder = IF @ = "paused" THEN "recording" ELSE @])
            /\ st' = [st EXCEPT !.isPaused = FALSE]
       ELSE /\ rt' = stopServerTranscription(
                       [rt EXCEPT !.mediaRecorder = IF @ = "recording" THEN "paused" ELSE @])
            /\ st' = [st EXCEPT !.isPaused = TRUE]
  /\ hist' = Past(hist)
  /\ UNCHANGED <<mounted, navPending, startPc, stopPc, captureSource,
                 closMeetingId, closTranscript, stopMeetingId>>

\* ------------------------------------------------------ recorder failures
\* a running recorder fails (MediaRecorder 'error'): the platform makes it
\* inactive and fires 'error' (no handler) and 'stop'
RecorderErrorStopsBoth(which) ==
  /\ CanQueue
  /\ \/ which = "full" /\ rt.mediaRecorder \in {"recording", "paused"}
     \/ which = "cycle" /\ rt.transcriptionRecorder = "recording"
  /\ rt' = [StopRecorderRef(rt) EXCEPT
               !.mediaRecorder = IF @ \in {"recording", "paused"} THEN "none" ELSE @]
  /\ UNCHANGED <<st, mounted, navPending, startPc, stopPc, captureSource,
                 closMeetingId, closTranscript, stopMeetingId>>
  /\ hist' = Past(hist)

RecorderError(which) ==
  /\ CanQueue
  /\ \/ /\ which = "full" /\ rt.mediaRecorder \in {"recording", "paused"}
        /\ rt' = [rt EXCEPT !.mediaRecorder = "none"]
     \/ /\ which = "cycle" /\ rt.transcriptionRecorder = "recording"
        /\ rt' = StopRecorderRef(rt)
  /\ UNCHANGED <<st, mounted, navPending, startPc, stopPc, captureSource,
                 closMeetingId, closTranscript, stopMeetingId>>
  /\ hist' = Past(hist)

\* --------------------------------------------------------------- the timers
\* a firing of a 10-second interval set by startServerTranscription
CycleTimerFires ==
  /\ CanQueue
  /\ rt.transcriptionTimerRef \/ rt.orphanTimers > 0
  /\ rt' = cycleTranscriptionRecorder(rt)
  /\ UNCHANGED <<st, mounted, navPending, startPc, stopPc, captureSource,
                 closMeetingId, closTranscript, stopMeetingId>>
  /\ hist' = Past(hist)

\* the same firing, taken while fewer than MaxUploads segments are under way:
\* the responses of the uploader are slow and the cycles go on
CycleTimerFiresSlowUploads ==
  /\ BagCardinality(rt.segs) < MaxUploads
  /\ rt.transcriptionTimerRef \/ rt.orphanTimers > 0
  /\ rt' = cycleTranscriptionRecorder(rt)
  /\ UNCHANGED <<st, mounted, navPending, startPc, stopPc, captureSource,
                 closMeetingId, closTranscript, stopMeetingId>>
  /\ hist' = Past(hist)

\* the elapsed-time effect as it would be without !isPaused in its condition
TickerIgnoresPause == mounted /\ st.isCapturing

\* the elapsed-time effect: an interval while isCapturing && !isPaused
TickerRuns == mounted /\ st.isCapturing /\ ~st.isPaused

Tick ==
  /\ TickerRuns
  /\ st.recordingTime < MaxTime
  /\ st' = [st EXCEPT !.recordingTime = @ + 1]
  /\ UNCHANGED <<rt, mounted, navPending, startPc, stopPc, captureSource,
                 closMeetingId, closTranscript, stopMeetingId>>
  /\ hist' = Past(hist)

\* ------------------------------------------------------- the media tracks
\* the platform ends a track at its source (the user stops sharing) and
\* queues the task that sets readyState and fires 'ended'.  For a track
\* without an onended handler that task only sets readyState: it is taken
\* together with this step.
SourceEnds(k, i) ==
  /\ CanQueue
  /\ \/ /\ k = "sys" /\ i \in DOMAIN rt.sysAudio /\ rt.sysAudio[i] = "live"
        /\ rt' = IF rt.onended = "sys"
                   THEN [rt EXCEPT !.sysAudio = SortTracks([@ EXCEPT ![i] = "ending"])]
                   ELSE InactivateRecorders(
                          [rt EXCEPT !.sysAudio = SortTracks([@ EXCEPT ![i] = "ended"])])
     \/ /\ k = "mic" /\ i = 1 /\ rt.mic = "live"
        /\ rt' = InactivateRecorders([rt EXCEPT !.mic = "ended"])
  /\ UNCHANGED <<st, mounted, navPending, startPc, stopPc, captureSource,
                 closMeetingId, closTranscript, stopMeetingId>>
  /\ hist' = Past(hist)

\* the queued task: the track is ended and its onended handler runs
EndedTask(i) ==
  /\ CanQueue
  /\ i \in DOMAIN rt.sysAudio
  /\ rt.sysAudio[i] = "ending"
  /\ LET r == InactivateRecorders(
                 [rt EXCEPT !.sysAudio = SortTracks([@ EXCEPT ![i] = "ended"])])
     IN IF r.isCapturingRef
          THEN StopEnter(r, "track", closMeetingId, closTranscript)
          ELSE /\ rt' = r
               /\ UNCHANGED <<st, mounted, navPending, startPc, stopPc, captureSource,
                              closMeetingId, closTranscript, stopMeetingId>>
               /\ hist' = Past(hist)

\* ------------------------------------------------ transcription uploader
\* the segments under way, as a bag: which one moves next is not ordered
Drop(q, g) == q (-) SetToBag({g})

Move(q, g, h) == Drop(q, g) (+) SetToBag({h})

\* meeting_id of a /recording/transcribe-audio request: the ref, as read when
\* the request is built
RequestMeetingId == rt.meetingIdRef

\* recorder.onstop and sendBlobForTranscription up to the FileReader await;
\* small: no chunk was collected or the blob is below 1000 bytes
RecorderOnStop(g, small) ==
  /\ BagIn(g, rt.segs)
  /\ g.stage = "onstop"
  /\ rt' = IF small \/ rt.meetingIdRef = Null \/ ~rt.isCapturingRef
             THEN [rt EXCEPT !.segs = Drop(@, g)]
             ELSE [rt EXCEPT !.segs = Move(@, g, [g EXCEPT !.stage = "reading"])]
  /\ UNCHANGED <<st, mounted, navPending, startPc, stopPc, captureSource,
                 closMeetingId, closTranscript, stopMeetingId>>
  /\ hist' = Past(hist)

\* the FileReader finishes: the request is built and sent, or the reader
\* failed and the catch block ran.  The body of the request holds
\* RequestMeetingId; nothing reads it once the request is sent, and the
\* segment under way does not keep it.
ReaderLoaded(g, ok) ==
  /\ BagIn(g, rt.segs)
  /\ g.stage = "reading"
  /\ rt' = IF ok
             THEN [rt EXCEPT !.segs = Move(@, g, [g EXCEPT !.stage = "uploading"])]
             ELSE [rt EXCEPT !.segs = Drop(@, g)]
  /\ UNCHANGED <<st, mounted, navPending, startPc, stopPc, captureSource,
                 closMeetingId, closTranscript, stopMeetingId>>
  /\ hist' = Past(hist)

\* id: Date.now() of an entry, as related to the id of the entry appended
\* before it.  The clock does not run backwards in the model; it reads the
\* same millisecond again only when nothing but the handling of responses
\* happened since the last entry was made.
ClockReadings == {"later", "same"}

\* the uploader as it would be if its catch block told the user
UploadReturnsSurfacesError(g, outcome, text, now) ==
  /\ BagIn(g, rt.segs)
  /\ g.stage = "uploading"
  /\ outcome \in {"throw", "notok", "ok"}
  /\ text \in ResponseTexts
  /\ outcome # "ok" => text = Undefined
  /\ (outcome = "ok" /\ HasText(text)) => Len(st.liveTranscript) < MaxEntries
  /\ now \in ClockReadings
  /\ now = "same" => (outcome = "ok" /\ HasText(text) /\ hist.justAppended)
  /\ rt' = [rt EXCEPT !.segs = Drop(@, g)]
  /\ st' = IF outcome = "ok" /\ HasText(text)
             THEN SetState([st EXCEPT !.liveTranscript =
                               Append(@, [sess |-> g.sess, id |-> now])])
             ELSE IF outcome = "throw"
             THEN SetState([st EXCEPT !.error = "other"])
             ELSE st
  /\ hist' = [hist EXCEPT !.uploadFailed = outcome \in {"throw", "notok"},
                          !.justAppended = mounted /\ outcome = "ok" /\ HasText(text)]
  /\ UNCHANGED <<mounted, navPending, startPc, stopPc, captureSource,
                 closMeetingId, closTranscript, stopMeetingId>>

\* /recording/transcribe-audio returns (ok, with data.text = text, or with an
\* error status) or throws; response.json() is taken with it
UploadReturns(g, outcome, text, now) ==
  /\ BagIn(g, rt.segs)
  /\ g.stage = "uploading"
  /\ outcome \in {"throw", "notok", "ok"}
  /\ text \in ResponseTexts
  /\ outcome # "ok" => text = Undefined
  /\ (outcome = "ok" /\ HasText(text)) => Len(st.liveTranscript) < MaxEntries
  /\ now \in ClockReadings
  /\ now = "same" => (outcome = "ok" /\ HasText(text) /\ hist.justAppended)
  /\ rt' = [rt EXCEPT !.segs = Drop(@, g)]
  /\ st' = IF outcome = "ok" /\ HasText(text)
             THEN SetState([st EXCEPT !.liveTranscript =
                               Append(@, [sess |-> g.sess, id |-> now])])
             ELSE st
  /\ hist' = [hist EXCEPT !.uploadFailed = outcome \in {"throw", "notok"},
                          !.justAppended = mounted /\ outcome = "ok" /\ HasText(text)]
  /\ UNCHANGED <<mounted, navPending, startPc, stopPc, captureSource,
                 closMeetingId, closTranscript, stopMeetingId>>

\* ------------------------------------------------------------------ unmount
\* the host leaves the page (navigation, or onMeetingCreated): the effect's
\* cleanup runs.  The component's state is discarded with the page: the title,
\* the error banner, the counter, the transcript and the meeting id are not
\* kept (the status and the two flags stay as last rendered, for the
\* observers; no setter changes them any more).
Unmount ==
  /\ CanQueue
  /\ mounted
  /\ mounted' = FALSE
  /\ navPending' = FALSE
  /\ rt' = cleanup(rt)
  /\ closTranscript' = IF startPc = "none" THEN <<>> ELSE closTranscript
  /\ st' = [st EXCEPT !.meetingTitle = "", !.error = "", !.recordingTime = 0,
                      !.liveTranscript = <<>>, !.meetingId = Null]
  /\ hist' = Past(hist)
  /\ UNCHANGED <<startPc, stopPc, captureSource, closMeetingId,
                 stopMeetingId>>

\* ---------------------------------------------------------------- the system
Next ==
  \/ \E t \in Titles : SetTitle(t)
  \/ \E src \in Sources : StartClick(src)
  \/ \E msg \in {"cancelled", "other"} : DisplayThrows(msg)
  \/ DisplayNoAudio
  \/ \E n \in 1..MaxAudioTracks, vizOk \in BOOLEAN : DisplayAudio(n, vizOk)
  \/ \E micOk \in BOOLEAN, mixOk \in BOOLEAN : MicResult(micOk, mixOk)
  \/ \E outcome \in {"ok", "notok", "throw"} : BackendStartResult(outcome)
  \/ \E ok \in BOOLEAN, fullOk \in BOOLEAN : JsonResult(ok, fullOk)
  \/ TogglePause
  \/ StopClick
  \/ \E outcome \in {"ok", "http500", "throw"} : StopCallReturns(outcome)
  \/ CycleTimerFires
  \/ \E which \in {"full", "cycle"} : RecorderError(which)
  \/ Tick
  \/ \E k \in {"sys", "mic"}, i \in 1..MaxAudioTracks : SourceEnds(k, i)
  \/ \E i \in 1..MaxAudioTracks : EndedTask(i)
  \/ \E g \in BagToSet(rt.segs), small \in BOOLEAN : RecorderOnStop(g, small)
  \/ \E g \in BagToSet(rt.segs), ok \in BOOLEAN : ReaderLoaded(g, ok)
  \/ \E g \in BagToSet(rt.segs), outcome \in {"throw", "notok", "ok"},
          text \in ResponseTexts, now \in ClockReadings :
        UploadReturns(g, outcome, text, now)
  \/ Unmount

Spec == Init /\ [][Next]_vars

\* One session on the display stream, left alone by the user (no pause, no
\* stop, no unmount, no track end), whose uploads may take longer than a
\* cycle: up to MaxUploads segments are under way at once.
NextUploads ==
  \/ \E t \in Titles : SetTitle(t)
  \/ StartClick("system")
  \/ \E n \in 1..MaxAudioTracks, vizOk \in BOOLEAN : DisplayAudio(n, vizOk)
  \/ BackendStartResult("ok")
  \/ JsonResult(TRUE, TRUE)
  \/ CycleTimerFiresSlowUploads
  \/ Tick
  \/ \E g \in BagToSet(rt.segs), small \in BOOLEAN : RecorderOnStop(g, small)
  \/ \E g \in BagToSet(rt.segs), ok \in BOOLEAN : ReaderLoaded(g, ok)
  \/ \E g \in BagToSet(rt.segs), outcome \in {"throw", "notok", "ok"},
          text \in ResponseTexts, now \in ClockReadings :
        UploadReturns(g, outcome, text, now)

SpecUploads == Init /\ [][NextUploads]_vars

\* ================================================================ properties
NoLiveTrack ==
  /\ ~AnyLive(rt.sysAudio)
  /\ ~IsLive(rt.mic) /\ ~IsLive(rt.comb) /\ ~IsLive(rt.video)

NoOpenContext == rt.audioContext # "running" /\ ~rt.orphanContext

ActiveCyclingRecorders ==
  (IF rt.transcriptionRecorder = "recording" THEN 1 ELSE 0) + rt.orphanRecorders

TimerArmed == rt.transcriptionTimerRef \/ rt.orphanTimers > 0

StopCompleted == hist.stopResult \in {"done", "failed"}

\* C1: at most one cycling recorder is active at any time, and none is while
\* the session is paused or idle.
C1_AtMostOneCyclingRecorder ==
  /\ ActiveCyclingRecorders <= 1
  /\ (st.status = "idle" \/ (st.status = "capturing" /\ st.isPaused))
       => ActiveCyclingRecorders = 0

\* a cycle has ended (its segment is under way) and the next one is recording
C1_Witness ==
  /\ mounted /\ st.status = "capturing" /\ ~st.isPaused
  /\ rt.transcriptionRecorder = "recording"
  /\ rt.transcriptionTimerRef
  /\ BagCardinality(rt.segs) > 0

\* C2: once a stop sequence has run to its end, by the Stop button or by a
\* track's 'ended' event, no track of any stream is live and no audio
\* context is open.
C2_StopReleasesTracksAndContexts ==
  StopCompleted => NoLiveTrack /\ NoOpenContext

C2_Witness ==
  /\ hist.stopResult = "done" /\ hist.stopBy = "track"
  /\ rt.audioContext = "closed"

\* C3 (as claimed): a stop sequence triggered by a track's 'ended' event has,
\* when the state is back to idle, issued the three backend calls for the
\* session's meeting id, as the one of a Stop click does.
C3_TrackStopIssuesBackendCalls ==
  (hist.stopBy = "track" /\ hist.stopResult = "done")
     => hist.stopCalls = <<[call |-> "persist", mid |-> New],
                           [call |-> "update", mid |-> New],
                           [call |-> "finalize", mid |-> New]>>

\* C4: stopCapture is never entered while a stop sequence is under way, and a
\* track's 'ended' event never enters it after the session's stop sequence
\* was entered once.
C4_StopNotReentered == ~hist.stopOverlap /\ ~hist.trackReentry

\* a track ended at its source while the stop sequence of a Stop click was
\* about to run; its 'ended' task found the track stopped
C4_Witness ==
  /\ hist.endedAborted /\ hist.stopBy = "click"
  /\ stopPc = "persist"

\* C5: after a failed start sequence the session is idle with an error
\* message, no track is live and no audio context is open.
C5_FailedStartReleases ==
  (hist.startFail # "none" /\ startPc = "none")
     => /\ mounted => (st.status = "idle" /\ st.error # "")
        /\ NoLiveTrack /\ NoOpenContext

\* reading the response of /recording/start failed after the streams and the
\* audio context had been acquired
C5_Witness ==
  /\ hist.startFail = "json" /\ mounted
  /\ rt.audioContext = "closed"
  /\ st.status = "idle"

Released ==
  /\ NoLiveTrack /\ NoOpenContext
  /\ rt.mediaRecorder \notin {"recording", "paused"}
  /\ ActiveCyclingRecorders = 0
  /\ ~TimerArmed

StopFails == hist.stopResult = "running" /\ hist'.stopResult = "failed"

\* C6 (as claimed): when a backend call of the stop sequence fails, the
\* tracks are stopped, the audio context is closed, both recorders are
\* inactive and the cycle timer is cleared.
C6_FailedStopReleases == [][StopFails => Released']_vars

\* C7 (as claimed): when a backend call of the stop sequence fails, the
\* state is reset: idle, not capturing (state and ref), not paused, elapsed
\* time 0, no meeting id.
C7_FailedStopResets ==
  [][(StopFails /\ mounted)
       => (/\ st.status = "idle" /\ ~st.isCapturing /\ ~rt.isCapturingRef
           /\ ~st.isPaused /\ st.recordingTime = 0
           /\ st.meetingId = Null)']_vars

\* C8 (as claimed): from the end of a stop sequence to the next start, the
\* elapsed-time ticker, the cycle timer and the level monitor's frame
\* callback are all cancelled.
C8_StopCancelsTimers ==
  StopCompleted => ~TickerRuns /\ ~TimerArmed /\ ~rt.animationFrame

AppendsOne(old, new) ==
  /\ Len(new) = Len(old) + 1
  /\ SubSeq(new, 1, Len(old)) = old

\* C9: every step of the mounted page leaves the live transcript unchanged
\* or appends one entry at its end, except the step of a start sequence into
\* capturing, which empties it.
C9_TranscriptAppendOnly ==
  [][\/ ~mounted'
     \/ st'.liveTranscript = st.liveTranscript
     \/ AppendsOne(st.liveTranscript, st'.liveTranscript)
     \/ /\ st.status = "requesting" /\ st'.status = "capturing"
        /\ st'.liveTranscript = <<>>]_vars

\* an entry outlived the stop sequence of its session
C9_Witness ==
  /\ Len(st.liveTranscript) > 0
  /\ hist.stopResult = "done" /\ st.status = "idle"

\* C10: after the capture dialog returned a stream without audio tracks, the
\* error is the no-audio one, the state is idle, no track of the stream is
\* live and /recording/start was not requested.
C10_NoAudioAbortsStart ==
  hist.display = "noaudio"
     => /\ mounted => (st.error = "noaudio" /\ st.status = "idle")
        /\ NoLiveTrack
        /\ ~hist.startReq

C10_Witness ==
  /\ hist.display = "noaudio" /\ mounted
  /\ st.status = "idle" /\ startPc = "none"

StopCallNames == [i \in DOMAIN hist.stopCalls |-> hist.stopCalls[i].call]

\* C11 (as claimed): a stop sequence issues its backend calls in the order
\* persist transcript, update meeting, finalize recording, each after the
\* previous one returned, and is back to idle only after the third.
C11_StopCallsInOrder ==
  /\ stopPc = "persist" => StopCallNames = <<"persist">>
  /\ stopPc = "update" => StopCallNames = <<"persist", "update">>
  /\ stopPc = "finalize" => StopCallNames = <<"persist", "update", "finalize">>
  /\ hist.stopResult = "done" => StopCallNames = <<"persist", "update", "finalize">>

\* C12 (as claimed): when the stop sequence of a Stop click brings the state
\* back to idle, the transcript it persisted holds, in order, every entry
\* the live transcript of the session has at that moment.
C12_PersistedTranscriptComplete ==
  [][(hist.stopResult = "running" /\ hist'.stopResult = "done" /\ mounted)
       => hist'.persisted = st'.liveTranscript]_vars

PauseStep == TogglePause /\ st.status = "capturing" /\ ~st.isPaused

ResumeStep == TogglePause /\ st.status = "capturing" /\ st.isPaused

\* C13 (as claimed): a pause from capturing pauses the full-session recorder
\* without ending it, stops the cycle recorder and clears the cycle timer,
\* and starts no recorder; a resume resumes the full-session recorder and
\* starts exactly one cycle recorder and exactly one cycle timer.
C13_PauseResume ==
  [][/\ PauseStep =>
          /\ rt'.mediaRecorder = IF rt.mediaRecorder = "recording"
                                   THEN "paused" ELSE rt.mediaRecorder
          /\ ActiveCyclingRecorders' = 0
          /\ ~TimerArmed'
     /\ ResumeStep =>
          /\ rt'.mediaRecorder = IF rt.mediaRecorder = "paused"
                                   THEN "recording" ELSE rt.mediaRecorder
          /\ ActiveCyclingRecorders' = 1
          /\ rt'.transcriptionTimerRef /\ rt'.orphanTimers = 0]_vars

\* C14: on the mounted page the elapsed-seconds counter does not change while
\* the session is paused, a pause or a resume leaves its value as it is, and
\* it changes only by one second at a time while isCapturing && !isPaused, or
\* back to 0 when a session starts or a stop sequence resets the state.
C14_ElapsedFrozenWhilePaused ==
  [][mounted' =>
       /\ (st.isPaused /\ st'.isPaused) => st'.recordingTime = st.recordingTime
       /\ (st.isCapturing /\ st'.isCapturing /\ st'.isPaused # st.isPaused)
             => st'.recordingTime = st.recordingTime
       /\ st'.recordingTime # st.recordingTime
             => \/ /\ st'.recordingTime = st.recordingTime + 1
                   /\ st.isCapturing /\ ~st.isPaused
                   /\ st'.isCapturing /\ ~st'.isPaused
                \/ /\ st'.recordingTime = 0
                   /\ st'.isCapturing # st.isCapturing]_vars

\* the session is paused after the counter counted: its value is kept
C14_Witness ==
  /\ mounted /\ st.status = "capturing"
  /\ st.isCapturing /\ st.isPaused
  /\ st.recordingTime > 0

Uninterrupted == mounted /\ st.status = "capturing" /\ ~st.isPaused

SegmentsUnderWay == BagCardinality(rt.segs)

\* C15 (as claimed): in an uninterrupted session every firing of the cycle
\* timer completes one segment and starts the next, the Stop click completes
\* the final one, and every completed segment above the size threshold is
\* handed on towards exactly one uploader request.
C15_SegmentPerCycle ==
  [][/\ (Uninterrupted /\ CycleTimerFires)
          => /\ SegmentsUnderWay' = SegmentsUnderWay + 1
             /\ rt'.transcriptionRecorder = "recording"
     /\ (Uninterrupted /\ StopClick)
          => SegmentsUnderWay' = SegmentsUnderWay + 1
     /\ \A g \in BagToSet(rt.segs) :
          ((Uninterrupted \/ (mounted /\ hist.stopBy = "click"))
             /\ RecorderOnStop(g, FALSE))
             => SegmentsUnderWay' = SegmentsUnderWay]_vars

UploadFails ==
  \E g \in BagToSet(rt.segs) :
     \/ UploadReturns(g, "throw", Undefined, "later")
     \/ UploadReturns(g, "notok", Undefined, "later")

\* C16: an upload that throws or returns a non-OK response leaves the
\* session as it is: the React state (status, flags, transcript, error) is
\* unchanged and so are the cycle timer and both recorders.
C16_UploadFailureIgnored ==
  [][UploadFails =>
       /\ st' = st
       /\ rt'.transcriptionTimerRef = rt.transcriptionTimerRef
       /\ rt'.orphanTimers = rt.orphanTimers
       /\ rt'.transcriptionRecorder = rt.transcriptionRecorder
       /\ rt'.mediaRecorder = rt.mediaRecorder
       /\ rt'.isCapturingRef = rt.isCapturingRef]_vars

\* an upload failed and the session goes on capturing, timer armed, the
\* current cycle recording, no error shown
C16_Witness ==
  /\ hist.uploadFailed
  /\ Uninterrupted /\ st.error = ""
  /\ rt.transcriptionTimerRef /\ rt.transcriptionRecorder = "recording"

\* C17 (as claimed): on a platform that cannot create the audio encoder the
\* start sequence is aborted: the session never is capturing.
C17_NoEncoderNoCapture ==
  ~rt.encoder => /\ ~rt.isCapturingRef
                 /\ mounted => (~st.isCapturing /\ st.status # "capturing")

StartSucceeds == startPc = "json" /\ startPc' = "none" /\ rt'.isCapturingRef

\* C18: the two recorders do not depend on each other.  Whether or not the
\* full-session recorder could be created, a successful start arms the
\* cycle timer and starts the cycle recorder; a failure of the running
\* full-session recorder leaves the cycle recorder, the timer and the state
\* alone; a failure of the running cycle recorder, a timer firing and a
\* failed upload leave the full-session recorder alone; and a timer firing
\* starts the next cycle recorder whatever the full-session recorder is.
C18_RecordersIndependent ==
  [][/\ StartSucceeds
          => /\ rt'.transcriptionTimerRef
             /\ RecorderStarts(rt') => rt'.transcriptionRecorder = "recording"
     /\ RecorderError("full")
          => /\ rt'.transcriptionRecorder = rt.transcriptionRecorder
             /\ rt'.transcriptionTimerRef = rt.transcriptionTimerRef
             /\ rt'.segs = rt.segs
             /\ st' = st
     /\ (RecorderError("cycle") \/ CycleTimerFires \/ UploadFails)
          => rt'.mediaRecorder = rt.mediaRecorder
     /\ (CycleTimerFires /\ rt.isCapturingRef /\ RecorderStarts(rt))
          => rt'.transcriptionRecorder = "recording"]_vars

\* the full-session recorder could not be created; the session captures and
\* a cycle has ended with the next one recording
C18_Witness ==
  /\ Uninterrupted /\ rt.encoder
  /\ rt.mediaRecorder = "none"
  /\ rt.transcriptionRecorder = "recording"
  /\ SegmentsUnderWay > 0


\* the session state of the state diagram: paused is capturing with isPaused
Phase(s) == IF s.status = "capturing" /\ s.isPaused THEN "paused" ELSE s.status

\* C19: the session state changes only along the edges of the state diagram
\* or along an error edge into idle, a start is taken only from idle, and a
\* click on Pause/Resume is taken only while the session is capturing or
\* paused: nothing of the session changes with it while the session is
\* requesting, stopping or idle.
C19_OnlyDiagramEdges ==
  [][LET Edges == {<<"idle", "requesting">>, <<"requesting", "capturing">>,
                   <<"capturing", "paused">>, <<"paused", "capturing">>,
                   <<"capturing", "stopping">>, <<"paused", "stopping">>,
                   <<"stopping", "idle">>}
     IN /\ Phase(st') # Phase(st)
             => (<<Phase(st), Phase(st')>> \in Edges \/ Phase(st') = "idle")
        /\ (\E src \in Sources : StartClick(src)) => Phase(st) = "idle"
        /\ st.status \in {"requesting", "stopping", "idle"}
             => /\ st'.isPaused = st.isPaused
                /\ TogglePause => UNCHANGED <<st, rt>>]_vars

\* C20: while the session is capturing with the level monitor attached, an
\* animation frame of the sampling callback is scheduled.
C20_LevelMonitorScheduled ==
  (mounted /\ st.status = "capturing" /\ rt.isCapturingRef /\ rt.analyserRef)
     => rt.animationFrame

\* a track of an acquired stream is ended by the platform
EndsAtSource ==
  \E k \in {"sys", "mic"}, i \in 1..MaxAudioTracks : SourceEnds(k, i)

Capturing == mounted /\ st.status = "capturing"

\* C21: in every source mode, a track of an acquired stream that the platform
\* ends while the session is capturing has an 'ended' observer (its task is
\* queued), and the task of such a track enters the stop sequence.
C21_EndedTrackNotifies ==
  [][/\ (Capturing /\ EndsAtSource)
          => CountOf(rt'.sysAudio, "ending") = CountOf(rt.sysAudio, "ending") + 1
     /\ (Capturing /\ \E i \in 1..MaxAudioTracks : EndedTask(i))
          => hist'.stopped]_vars

\* C22: when one of the stop calls returns an error status, the error is
\* surfaced: the page shows an error, the stop does not end as a success and
\* the host is not told of a saved meeting.
C22_StopCallErrorSurfaced ==
  [][(mounted /\ StopCallReturns("http500"))
        => /\ st'.error # ""
           /\ hist'.stopResult # "done"
           /\ ~navPending']_vars

\* C23: a start sequence begins (the state becomes requesting, startCapture
\* runs towards its capture prompt) only with a title that is not empty after
\* trimming.
C23_StartNeedsTitle ==
  [][(\/ st.status # "requesting" /\ st'.status = "requesting"
      \/ startPc = "none" /\ startPc' # "none")
        => Trim(st.meetingTitle) # ""]_vars

\* a start sequence is under way: it began with the title typed before
C23_Witness ==
  /\ mounted /\ st.status = "requesting" /\ startPc = "display"
  /\ Trim(st.meetingTitle) # ""

\* C24: the steps of a start sequence come in order, each after the earlier
\* one succeeded: the request to /recording/start is issued with the streams
\* acquired and the level monitor attached; the step that stores the
\* session's id finds the full-session recorder and the first cycle recorder
\* started, and they were started before the id was stored (the cycle
\* recorder was not started under the new id).
C24_StartStepsInOrder ==
  [][/\ (startPc # "backend" /\ startPc' = "backend")
          => (hist'.acquired /\ rt'.analyserRef)
     /\ StartSucceeds
          => /\ rt'.mediaRecorder = "recording"
             /\ rt'.transcriptionRecorder = "recording"
             /\ rt'.trSess # rt'.meetingIdRef]_vars

\* C25: on the mounted page, an OK response whose text is not empty after
\* trimming appends exactly one entry, for its segment, at the end of the
\* live transcript (completion order); an OK response whose text is missing,
\* empty or whitespace-only, a response with an error status and a failed
\* request leave the transcript as it is.
C25_EntryPerTextResponse ==
  [][mounted =>
       \A g \in BagToSet(rt.segs) :
          /\ (\E now \in ClockReadings : UploadReturns(g, "ok", " hello ", now))
               => /\ AppendsOne(st.liveTranscript, st'.liveTranscript)
                  /\ st'.liveTranscript[Len(st'.liveTranscript)].sess = g.sess
          /\ (\/ UploadReturns(g, "ok", Undefined, "later")
              \/ UploadReturns(g, "ok", "", "later")
              \/ UploadReturns(g, "ok", " ", "later")
              \/ UploadReturns(g, "notok", Undefined, "later")
              \/ UploadReturns(g, "throw", Undefined, "later"))
               => st'.liveTranscript = st.liveTranscript]_vars

\* a response with text came back while the session was capturing
C25_Witness ==
  /\ Capturing /\ rt.isCapturingRef
  /\ Len(st.liveTranscript) > 0
  /\ st.liveTranscript[Len(st.liveTranscript)].sess = New

\* C26: the ids of the entries of the live transcript are pairwise distinct
\* and increase in append order: no entry has the id of the entry appended
\* before it.
C26_EntryIdsIncrease ==
  \A i \in DOMAIN st.liveTranscript :
     i > 1 => st.liveTranscript[i].id = "later"

\* C27: while a session is capturing, every entry of its live transcript
\* comes from a segment recorded in that session (the session whose meeting
\* id the page holds); no entry comes from a segment of an earlier session.
C27_EntriesOfThisSession ==
  Capturing =>
    \A i \in DOMAIN st.liveTranscript :
       st.liveTranscript[i].sess = st.meetingId

\* C28: whenever a /recording/transcribe-audio request is built, the
\* meeting_id it carries is not null and is the id of the session in which
\* its segment was recorded.
C28_RequestCarriesOwnMeetingId ==
  [][\A g \in BagToSet(rt.segs) :
        ReaderLoaded(g, TRUE) =>
          (RequestMeetingId # Null /\ RequestMeetingId = g.sess)]_vars

\* What the platform schedules by itself runs sooner or later: the queued
\* task of an ended track, a pending backend response of start or stop, the
\* timers, and the steps of the segments under way.  What the user does
\* (Start, Stop, Pause, leaving the page) and what happens at the source is
\* not required to happen.
EndedTasks == \E i \in 1..MaxAudioTracks : EndedTask(i)

StartResponses ==
  \/ \E outcome \in {"ok", "notok", "throw"} : BackendStartResult(outcome)
  \/ \E ok \in BOOLEAN, fullOk \in BOOLEAN : JsonResult(ok, fullOk)

StopResponses == \E outcome \in {"ok", "http500", "throw"} : StopCallReturns(outcome)

Timers == CycleTimerFires \/ Tick

FairSpec ==
  /\ Spec
  /\ WF_vars(EndedTasks)
  /\ WF_vars(StartResponses)
  /\ WF_vars(StopResponses)
  /\ WF_vars(Timers)

\* C29: a session that is capturing on a stream none of whose tracks is live
\* (the tracks ended while the start was awaiting the backend) does not stay
\* capturing: the stop sequence runs, by itself, sooner or later.
C29_DeadStreamStops ==
  (Capturing /\ ~StreamActive(rt)) ~> ~Capturing

\* C30: once the page is unmounted, no media track is live, no audio context
\* is open, no recorder is active and no cycle timer is armed.
C30_UnmountedHoldsNothing == ~mounted => Released

=============================================================================
